---- MODULE Spec2Model ----
(***************************************************************************)
(* Adler-32 checksum subsystem of zlib_rs: the combine algorithm           *)
(* (adler32/combine.rs) and the C-ABI entry points (ffi/mod.rs).           *)
(*                                                                         *)
(* Number representation.  TLC's integers are 32-bit signed, so a Rust u32 *)
(* is kept as two 16-bit limbs [hi, lo] and an i64/u64 as four 16-bit      *)
(* limbs <<w3, w2, w1, w0>> (two's complement, most significant first).    *)
(* Arithmetic on limbs is the machine arithmetic of the Rust operators: it *)
(* wraps modulo 2^32 and reports, next to the wrapped value, whether the   *)
(* mathematical result left the type (ok = FALSE), which is where a build  *)
(* with overflow checks panics and a build without them goes on with the   *)
(* wrapped value.                                                          *)
(***************************************************************************)
EXTENDS Integers, Sequences, FiniteSets

\* const BASE: u32 = 65521
BASE == 65521

\* 2^16, the limb radix (the 0xffff masks and the 16-bit shifts of the code)
W16 == 65536

\* 2^15, the weight of the sign bit inside the top limb of an i64
SIGN16 == 32768

(***************************************************************************)
(* u32 values and the Rust operators the code applies to them              *)
(***************************************************************************)
U32(hi, lo) == [hi |-> hi, lo |-> lo]

\* a literal or a small value 0 <= n < 2^31 as u32
FromInt(n) == U32(n \div W16, n % W16)

ZERO == U32(0, 0)
ONE == U32(0, 1)
\* 0xffffffff
SENTINEL == U32(W16 - 1, W16 - 1)

\* x + y on u32
AddU32(x, y) ==
  LET lo == x.lo + y.lo
      hi == x.hi + y.hi + (lo \div W16)
  IN [v |-> U32(hi % W16, lo % W16), ok |-> hi < W16]

\* x - y on u32
SubU32(x, y) ==
  LET lo == x.lo - y.lo
      hi == x.hi - y.hi - (IF lo < 0 THEN 1 ELSE 0)
  IN [v |-> U32((hi + W16) % W16, (lo + W16) % W16), ok |-> hi >= 0]

\* x >= y on u32
GeU32(x, y) == x.hi > y.hi \/ (x.hi = y.hi /\ x.lo >= y.lo)

\* x & 0xffff
Lo16(x) == U32(0, x.lo)

\* (x >> 16) & 0xffff
Hi16(x) == U32(0, x.hi)

\* x << 16 on u32: the bits shifted out are dropped, which is no overflow in Rust
Shl16(x) == U32(x.lo, 0)

\* a | b on 16-bit limbs
RECURSIVE Or16(_, _)
Or16(a, b) ==
  IF a = 0 THEN b
  ELSE IF b = 0 THEN a
  ELSE (IF (a % 2 = 1) \/ (b % 2 = 1) THEN 1 ELSE 0) + 2 * Or16(a \div 2, b \div 2)

\* x | y on u32
OrU32(x, y) == U32(Or16(x.hi, y.hi), Or16(x.lo, y.lo))

(***************************************************************************)
(* 64-bit values: len2 (i64), its cast to u64, and the widened product     *)
(***************************************************************************)
\* (r * 2^16 + w) % BASE for r < BASE, w < 2^16, in steps that stay below 2^31
ModStep(r, w) == ((((r * 256) % BASE) * 256) + w) % BASE

\* (a * b) % BASE for a, b < BASE, in steps that stay below 2^31
MulMod16(a, b) == ((((a * (b \div 256)) % BASE) * 256) + a * (b % 256)) % BASE

\* x % BASE for a u32 x
ModU32(x) == ModStep(ModStep(0, x.hi), x.lo)

\* (len2 as u64 % BASE as u64): the cast keeps the bits, the remainder is
\* taken of the unsigned value
U64ModBase(l) == ModStep(ModStep(ModStep(ModStep(0, l[1]), l[2]), l[3]), l[4])

\* (x as u64 * y as u64) % BASE as u64: the u64 product of two u32 values is
\* exact (below 2^64), so its remainder is the product of the remainders
MulModBase(x, y) == MulMod16(ModU32(x), ModU32(y))

\* a buffer length n (usize/u32, small in this model) as the i64 len2
I64(n) == <<0, 0, n \div W16, n % W16>>

(***************************************************************************)
(* adler32/combine.rs: adler32_combine_, one operator per statement        *)
(***************************************************************************)
\* Mutant of NegLen: the sign is read off the low 32 bits (len2 as i32 < 0).
NegLen_Low32(len2) == len2[3] >= SIGN16

\* Mutant of NegLen: the guard is len2 <= 0.
NegLen_OrZero(len2) == len2[1] >= SIGN16 \/ len2 = <<0, 0, 0, 0>>

\* if len2 < 0
NegLen(len2) == len2[1] >= SIGN16

\* Mutant of Rem: the length is truncated before it is reduced
\* (len2 as u32 % BASE).
Rem_Trunc32(len2) == FromInt(ModU32(U32(len2[3], len2[4])))

\* Mutant of Rem: the length is truncated and not reduced (len2 as u32).
Rem_Unreduced(len2) == U32(len2[3], len2[4])

\* let rem = (len2 as u64 % BASE as u64) as u32
Rem(len2) == FromInt(U64ModBase(len2))

\* let mut sum2 = ((rem as u64 * sum1 as u64) % BASE as u64) as u32
Sum2Init(rem, sum1) == FromInt(MulModBase(rem, sum1))

\* Mutant of Sum1Add: the "- 1" is dropped (sum1 += (adler2 & 0xffff) + BASE).
Sum1Add_NoMinusOne(sum1, adler2) ==
  LET t1 == AddU32(Lo16(adler2), FromInt(BASE))
      t3 == AddU32(sum1, t1.v)
  IN [v |-> t3.v, ok |-> t1.ok /\ t3.ok]

\* sum1 += (adler2 & 0xffff) + BASE - 1
Sum1Add(sum1, adler2) ==
  LET t1 == AddU32(Lo16(adler2), FromInt(BASE))
      t2 == SubU32(t1.v, ONE)
      t3 == AddU32(sum1, t2.v)
  IN [v |-> t3.v, ok |-> t1.ok /\ t2.ok /\ t3.ok]

\* sum2 += ((adler1 >> 16) & 0xffff) + ((adler2 >> 16) & 0xffff) + BASE - rem
Sum2Add(sum2, adler1, adler2, rem) ==
  LET t1 == AddU32(Hi16(adler1), Hi16(adler2))
      t2 == AddU32(t1.v, FromInt(BASE))
      t3 == SubU32(t2.v, rem)
      t4 == AddU32(sum2, t3.v)
  IN [v |-> t4.v, ok |-> t1.ok /\ t2.ok /\ t3.ok /\ t4.ok]

\* if x >= m { x -= m }
SubIfGe(x, m) == IF GeU32(x.v, m) THEN [v |-> SubU32(x.v, m).v, ok |-> x.ok /\ SubU32(x.v, m).ok]
                 ELSE x

\* Mutant of NormSum1: a single conditional subtraction.
NormSum1_Once(sum1) == SubIfGe([v |-> sum1, ok |-> TRUE], FromInt(BASE))

\* if sum1 >= BASE { sum1 -= BASE }, twice
NormSum1(sum1) ==
  SubIfGe(SubIfGe([v |-> sum1, ok |-> TRUE], FromInt(BASE)), FromInt(BASE))

\* if sum2 >= BASE << 1 { sum2 -= BASE << 1 }; if sum2 >= BASE { sum2 -= BASE }
NormSum2(sum2) ==
  SubIfGe(SubIfGe([v |-> sum2, ok |-> TRUE], FromInt(2 * BASE)), FromInt(BASE))

\* sum1 | (sum2 << 16)
Pack(sum1, sum2) == OrU32(sum1, Shl16(sum2))

\* What one call of adler32_combine_ leaves behind: the value returned, whether
\* the merge arithmetic ran, its intermediates, and whether every checked
\* operation stayed inside u32.
adler32_combine_(adler1, adler2, len2) ==
  IF NegLen(len2)
  THEN [ret |-> SENTINEL, arith |-> FALSE, ok |-> TRUE,
        rem |-> ZERO, mask1 |-> ZERO, sum1 |-> ZERO, sum2 |-> ZERO]
  ELSE LET rem == Rem(len2)
           mask1 == Lo16(adler1)
           prod == Sum2Init(rem, mask1)
           s1 == Sum1Add(mask1, adler2)
           s2 == Sum2Add(prod, adler1, adler2, rem)
           n1 == NormSum1(s1.v)
           n2 == NormSum2(s2.v)
       IN [ret |-> Pack(n1.v, n2.v), arith |-> TRUE,
           ok |-> s1.ok /\ s2.ok /\ n1.ok /\ n2.ok,
           rem |-> rem, mask1 |-> mask1, sum1 |-> s1.v, sum2 |-> s2.v]

\* pub fn adler32_combine (combine.rs), imported by ffi as adler32_combine_impl
adler32_combine_impl(adler1, adler2, len2) == adler32_combine_(adler1, adler2, len2)

(***************************************************************************)
(* The adler crate's hasher, as ffi/mod.rs uses it: from_checksum splits   *)
(* the seed into its 16-bit halves, write_slice adds each byte to a and a  *)
(* to b modulo 65521, checksum packs (b << 16) | a.                        *)
(***************************************************************************)
FromChecksum(sum) == [a |-> sum.lo, b |-> sum.hi]

WriteByte(h, byte) ==
  LET a == (h.a + byte) % BASE
  IN [a |-> a, b |-> (h.b + a) % BASE]

\* the bytes slice[lo..hi] folded into h in order.  The range is halved and the
\* left half is evaluated (the test on left.a, which always holds) before the
\* right half starts, so that the evaluation depth stays logarithmic in the
\* slice length.
RECURSIVE WriteRange(_, _, _, _)
WriteRange(h, slice, lo, hi) ==
  IF lo > hi THEN h
  ELSE IF lo = hi THEN WriteByte(h, slice[lo])
  ELSE LET mid == (lo + hi) \div 2
           left == WriteRange(h, slice, lo, mid)
       IN IF left.a >= 0 THEN WriteRange(left, slice, mid + 1, hi) ELSE h

WriteSlice(h, slice) == WriteRange(h, slice, 1, Len(slice))

Checksum(h) == U32(h.b, h.a)

(***************************************************************************)
(* ffi/mod.rs: the entry points                                            *)
(***************************************************************************)
\* a *const u8: the null pointer, or a pointer to an allocation holding mem
NULL == [null |-> TRUE, mem |-> <<>>]
Ptr(mem) == [null |-> FALSE, mem |-> mem]

\* buf.is_null()
IsNull(buf) == buf.null

\* std::slice::from_raw_parts(buf, len): the first len bytes behind buf
FromRawParts(buf, len) == SubSeq(buf.mem, 1, len)

\* Mutant of Initial: a zero seed is folded as it is.
Initial_Keep(adler) == adler

\* let initial = if adler == 0 { 1 } else { adler }
Initial(adler) == IF adler = ZERO THEN ONE ELSE adler

\* Mutant of adler32_z: the seed is replaced by initial before the zero-length
\* check, which then returns initial.
adler32_z_InitialFirst(adler, buf, len) ==
  IF IsNull(buf) THEN [ret |-> ONE, reads |-> 0]
  ELSE IF len = 0 THEN [ret |-> Initial(adler), reads |-> 0]
  ELSE LET slice == FromRawParts(buf, len)
           hasher == WriteSlice(FromChecksum(Initial(adler)), slice)
       IN [ret |-> Checksum(hasher), reads |-> Len(slice)]

\* Mutant of adler32: the zero-length check comes before the null check.
adler32_LenFirst(adler, buf, len) ==
  IF len = 0 THEN [ret |-> adler, reads |-> 0]
  ELSE IF IsNull(buf) THEN [ret |-> ONE, reads |-> 0]
  ELSE LET slice == FromRawParts(buf, len)
           hasher == WriteSlice(FromChecksum(Initial(adler)), slice)
       IN [ret |-> Checksum(hasher), reads |-> Len(slice)]

\* adler32_z: the value returned and the number of bytes read behind buf
adler32_z(adler, buf, len) ==
  IF IsNull(buf) THEN [ret |-> ONE, reads |-> 0]
  ELSE IF len = 0 THEN [ret |-> adler, reads |-> 0]
  ELSE LET slice == FromRawParts(buf, len)
           hasher == WriteSlice(FromChecksum(Initial(adler)), slice)
       IN [ret |-> Checksum(hasher), reads |-> Len(slice)]

\* adler32: the same body with a u32 len
adler32(adler, buf, len) ==
  IF IsNull(buf) THEN [ret |-> ONE, reads |-> 0]
  ELSE IF len = 0 THEN [ret |-> adler, reads |-> 0]
  ELSE LET slice == FromRawParts(buf, len)
           hasher == WriteSlice(FromChecksum(Initial(adler)), slice)
       IN [ret |-> Checksum(hasher), reads |-> Len(slice)]

\* extern "C" fn adler32_combine
adler32_combine(adler1, adler2, len2) == adler32_combine_impl(adler1, adler2, len2)

\* extern "C" fn adler32_combine64
adler32_combine64(adler1, adler2, len2) == adler32_combine_impl(adler1, adler2, len2)

(***************************************************************************)
(* Inputs                                                                  *)
(***************************************************************************)
\* longest of the enumerated short buffers
MaxBuf == 2

\* largest of the enumerated small lengths len2
MaxLen2 == 3

ByteVals == {0, 97, 255}

RECURSIVE SeqsUpTo(_)
SeqsUpTo(n) ==
  IF n = 0 THEN {<< >>}
  ELSE LET shorter == SeqsUpTo(n - 1)
       IN shorter \cup {Append(q, b) : q \in {r \in shorter : Len(r) = n - 1}, b \in ByteVals}

\* n copies of byte b
Rep(b, n) == [i \in 1..n |-> b]

\* 257 bytes whose byte sum is 65520 and whose running sums add up to a
\* multiple of 65521: their Adler-32 checksum from seed 1 is 0
ZeroSumBuf == <<247>> \o Rep(255, 255) \o <<248>>

Buffers == SeqsUpTo(MaxBuf) \cup {ZeroSumBuf}

\* 16-bit field values around the edges of the modulus and of the field
FieldVals == {0, 1, 2, BASE - 1, BASE, BASE + 1, W16 - 1}

Checksums == {U32(hi, lo) : hi \in FieldVals, lo \in FieldVals}

Seeds == {ZERO, ONE, SENTINEL, FromInt(12345), U32(98, 98), U32(BASE, BASE - 1)}

I64_MAX == <<SIGN16 - 1, W16 - 1, W16 - 1, W16 - 1>>
I64_MIN == <<SIGN16, 0, 0, 0>>
\* -n as i64, for 1 <= n <= 2^16
I64Neg(n) == <<W16 - 1, W16 - 1, W16 - 1, W16 - n>>

NonNegLens ==
  {I64(n) : n \in 0..MaxLen2}
    \cup {I64(BASE - 1), I64(BASE), I64(BASE + 1), I64(BASE + 100), I64(W16 - 1),
          I64(W16 + 5), <<0, 1, 0, 0>>, <<0, 1, 0, 7>>, I64_MAX}

NegLens == {I64Neg(1), I64Neg(100), <<W16 - 1, W16 - 1, 0, 0>>, <<SIGN16, 0, 0, 5>>, I64_MIN}

Lengths == NonNegLens \cup NegLens

(***************************************************************************)
(* State: the last call across the C ABI (the arguments of the entry       *)
(* point called, the others at their initial values, and what the call     *)
(* left behind), and a caller's session that checksums two segments and    *)
(* joins them                                                              *)
(***************************************************************************)
VARIABLES
  fn,        \* entry point of the last call ("none" before the first)
  adler,     \* adler32 / adler32_z: the seed
  buf,       \* adler32 / adler32_z: the buffer pointer
  len,       \* adler32 / adler32_z: the length
  adler1,    \* adler32_combine / adler32_combine64: first checksum
  adler2,    \* adler32_combine / adler32_combine64: second checksum
  len2,      \* adler32_combine / adler32_combine64: length of the second segment
  ret,       \* the u32 the call returned (without overflow checks: the wrapped value)
  reads,     \* bytes the call read behind buf
  panicked,  \* the call hit an arithmetic fault in a build with overflow checks
  trace,     \* adler32_combine_: whether the arithmetic ran, and its intermediates
  stage,     \* session: how far the caller has come
  segA,      \* session: first segment
  segB,      \* session: second segment
  ckA,       \* session: adler32(1, segA)
  ckB,       \* session: adler32(1, segB)
  merged,    \* session: adler32_combine(ckA, ckB, len(segB))
  extended,  \* session: adler32(ckA, segB)
  whole      \* session: adler32(1, segA ++ segB)

callVars == <<fn, adler, buf, len, adler1, adler2, len2, ret, reads, panicked, trace>>
sessVars == <<stage, segA, segB, ckA, ckB, merged, extended, whole>>
vars == <<fn, adler, buf, len, adler1, adler2, len2, ret, reads, panicked, trace,
          stage, segA, segB, ckA, ckB, merged, extended, whole>>

NoTrace == [arith |-> FALSE, ok |-> TRUE, rem |-> ZERO, mask1 |-> ZERO,
            sum1 |-> ZERO, sum2 |-> ZERO]

Init ==
  /\ fn = "none"
  /\ adler = ZERO /\ buf = NULL /\ len = 0
  /\ adler1 = ZERO /\ adler2 = ZERO /\ len2 = I64(0)
  /\ ret = ZERO /\ reads = 0 /\ panicked = FALSE /\ trace = NoTrace
  /\ stage = "idle"
  /\ segA = << >> /\ segB = << >>
  /\ ckA = ZERO /\ ckB = ZERO /\ merged = ZERO /\ extended = ZERO /\ whole = ZERO

\* The pointer/length pairs a caller may pass: a null pointer with any length,
\* or a pointer to an allocation with a length inside it (reading beyond the
\* allocation is the caller's undefined behaviour and is not enumerated).
ValidBufLen(b, n) ==
  \/ b = NULL /\ n \in 0..MaxBuf
  \/ \E m \in Buffers : b = Ptr(m) /\ n \in 0..Len(m)

Pointers == {NULL} \cup {Ptr(m) : m \in Buffers}

ChecksumCall(name, r, a, b, n) ==
  /\ fn' = name
  /\ adler' = a /\ buf' = b /\ len' = n
  /\ ret' = r.ret /\ reads' = r.reads
  /\ panicked' = FALSE /\ trace' = NoTrace
  /\ adler1' = ZERO /\ adler2' = ZERO /\ len2' = I64(0)
  /\ UNCHANGED sessVars

CombineCall(name, r, a1, a2, l2) ==
  /\ fn' = name
  /\ adler1' = a1 /\ adler2' = a2 /\ len2' = l2
  /\ ret' = r.ret
  /\ panicked' \in (IF r.ok THEN {FALSE} ELSE {FALSE, TRUE})
  /\ trace' = [arith |-> r.arith, ok |-> r.ok, rem |-> r.rem, mask1 |-> r.mask1,
               sum1 |-> r.sum1, sum2 |-> r.sum2]
  /\ reads' = 0
  /\ adler' = ZERO /\ buf' = NULL /\ len' = 0
  /\ UNCHANGED sessVars

CallAdler32 ==
  /\ fn = "none"
  /\ \E a \in Seeds, b \in Pointers, n \in 0..Len(ZeroSumBuf) :
       /\ ValidBufLen(b, n)
       /\ ChecksumCall("adler32", adler32(a, b, n), a, b, n)

CallAdler32Z ==
  /\ fn = "none"
  /\ \E a \in Seeds, b \in Pointers, n \in 0..Len(ZeroSumBuf) :
       /\ ValidBufLen(b, n)
       /\ ChecksumCall("adler32_z", adler32_z(a, b, n), a, b, n)

CallCombine ==
  /\ fn = "none"
  /\ \E a1 \in Checksums, a2 \in Checksums, l2 \in Lengths :
       CombineCall("adler32_combine", adler32_combine(a1, a2, l2), a1, a2, l2)

CallCombine64 ==
  /\ fn = "none"
  /\ \E a1 \in Checksums, a2 \in Checksums, l2 \in Lengths :
       CombineCall("adler32_combine64", adler32_combine64(a1, a2, l2), a1, a2, l2)

\* The caller has used the result; nothing of a call outlives it (the entry
\* points keep no state), so the next call starts from the initial state.
Return ==
  /\ fn # "none"
  /\ fn' = "none"
  /\ adler' = ZERO /\ buf' = NULL /\ len' = 0
  /\ adler1' = ZERO /\ adler2' = ZERO /\ len2' = I64(0)
  /\ ret' = ZERO /\ reads' = 0 /\ panicked' = FALSE /\ trace' = NoTrace
  /\ UNCHANGED sessVars

Next == CallAdler32 \/ CallAdler32Z \/ CallCombine \/ CallCombine64 \/ Return

Spec == Init /\ [][Next]_vars

(***************************************************************************)
(* The session: checksum segA and segB separately, then obtain the         *)
(* checksum of segA ++ segB three ways                                     *)
(***************************************************************************)
HashA ==
  /\ stage = "idle"
  /\ \E m \in Buffers :
       /\ segA' = m
       /\ ckA' = adler32(ONE, Ptr(m), Len(m)).ret
  /\ stage' = "hashedA"
  /\ UNCHANGED <<segB, ckB, merged, extended, whole>>
  /\ UNCHANGED callVars

HashB ==
  /\ stage = "hashedA"
  /\ \E m \in Buffers :
       /\ segB' = m
       /\ ckB' = adler32(ONE, Ptr(m), Len(m)).ret
  /\ stage' = "hashedB"
  /\ UNCHANGED <<segA, ckA, merged, extended, whole>>
  /\ UNCHANGED callVars

Merge ==
  /\ stage = "hashedB"
  /\ merged' = adler32_combine(ckA, ckB, I64(Len(segB))).ret
  /\ stage' = "merged"
  /\ UNCHANGED <<segA, segB, ckA, ckB, extended, whole>>
  /\ UNCHANGED callVars

Extend ==
  /\ stage = "merged"
  /\ extended' = adler32(ckA, Ptr(segB), Len(segB)).ret
  /\ stage' = "extended"
  /\ UNCHANGED <<segA, segB, ckA, ckB, merged, whole>>
  /\ UNCHANGED callVars

Whole ==
  /\ stage = "extended"
  /\ whole' = adler32(ONE, Ptr(segA \o segB), Len(segA) + Len(segB)).ret
  /\ stage' = "done"
  /\ UNCHANGED <<segA, segB, ckA, ckB, merged, extended>>
  /\ UNCHANGED callVars

SessionNext == HashA \/ HashB \/ Merge \/ Extend \/ Whole

SessionSpec == Init /\ [][SessionNext]_vars

(***************************************************************************)
(* Properties                                                              *)
(***************************************************************************)
ChecksumFns == {"adler32", "adler32_z"}
CombineFns == {"adler32_combine", "adler32_combine64"}

\* len2 < 0, read off the sign bit of the two's-complement value
LenIsNegative(l) == l[1] \div SIGN16 = 1

\* len2 mod 65521 for len2 >= 0, by 2^16 = 15 (mod 65521)
LenModBase(l) == ((((((l[1] * 15 + l[2]) % BASE) * 15 + l[3]) % BASE) * 15) + l[4]) % BASE

\* both 16-bit fields of a checksum are below the modulus
ValidChecksum(x) == x.lo < BASE /\ x.hi < BASE

\* what the entry point f returns for seed a, buffer b, length n
RetWithSeed(f, a, b, n) ==
  IF f = "adler32" THEN adler32(a, b, n).ret ELSE adler32_z(a, b, n).ret

\* C1: concatenation law: adler32_combine(adler32(1, A), adler32(1, B), len(B))
\* equals adler32(1, A ++ B), for the segments A and B of the session.
C1_ConcatenationLaw == stage = "done" => merged = whole

\* C1 witness: a session whose first segment wraps both sums (its checksum is 0)
\* and whose second segment is not empty has merged the two checksums.
C1_Witness ==
  /\ stage = "done"
  /\ segA = ZeroSumBuf /\ ckA = ZERO
  /\ segB = <<97, 255>>
  /\ merged = whole

\* C2 as stated: for every non-null buffer and every length, zero included,
\* adler32(0, buf, len) and adler32_z(0, buf, len) return what seed 1 returns.
C2_ZeroSeedAnyLen ==
  (fn \in ChecksumFns /\ ~IsNull(buf) /\ adler = ZERO)
    => ret = RetWithSeed(fn, ONE, buf, len)

\* C2 amended: for every non-null buffer and every length len >= 1,
\* adler32(0, buf, len) and adler32_z(0, buf, len) return what seed 1 returns.
C2_ZeroSeedNonEmpty ==
  (fn \in ChecksumFns /\ ~IsNull(buf) /\ adler = ZERO /\ len >= 1)
    => ret = RetWithSeed(fn, ONE, buf, len)

\* C2 witness: adler32(0, "a", 1) returned 0x00620062, the checksum from seed 1.
C2_Witness ==
  /\ fn = "adler32" /\ adler = ZERO
  /\ buf = Ptr(<<97>>) /\ len = 1
  /\ ret = U32(98, 98)

\* C3: range normalization: for len2 >= 0 and checksums whose 16-bit fields are
\* below 65521, both 16-bit fields of the combined checksum are below 65521.
C3_RangeNormalized ==
  (fn \in CombineFns /\ ~LenIsNegative(len2)
     /\ ValidChecksum(adler1) /\ ValidChecksum(adler2))
    => (ret.lo < BASE /\ ret.hi < BASE)

\* C3 witness: a combine of valid checksums in which sum1 needed both
\* subtractions and sum2 the subtraction of 2 * BASE.
C3_Witness ==
  /\ fn = "adler32_combine"
  /\ ValidChecksum(adler1) /\ ValidChecksum(adler2)
  /\ trace.arith
  /\ GeU32(trace.sum1, FromInt(2 * BASE))
  /\ GeU32(trace.sum2, FromInt(2 * BASE))
  /\ ret.lo < BASE /\ ret.hi < BASE

\* C4: negative-length sentinel: for len2 < 0 (down to i64::MIN) adler32_combine
\* and adler32_combine64 return 0xFFFFFFFF and run none of the merge arithmetic.
C4_NegativeSentinel ==
  (fn \in CombineFns /\ LenIsNegative(len2))
    => (ret = SENTINEL /\ ~trace.arith)

\* C4 witness: adler32_combine64 called with i64::MIN returned the sentinel.
C4_Witness ==
  /\ fn = "adler32_combine64"
  /\ len2 = I64_MIN
  /\ adler1 # ZERO
  /\ ret = SENTINEL

\* C5: length reduction: for len2 >= 0 the result equals the result for
\* len2 mod 65521.
C5_LengthReduction ==
  (fn \in CombineFns /\ ~LenIsNegative(len2))
    => ret = adler32_combine_(adler1, adler2, I64(LenModBase(len2))).ret

\* C5 witness: combine(0x00010001, 0x00010001, i64::MAX) returned what the
\* reduced length returns, and the reduced length differs from the length.
C5_Witness ==
  /\ fn = "adler32_combine"
  /\ adler1 = U32(1, 1) /\ adler2 = U32(1, 1)
  /\ len2 = I64_MAX
  /\ I64(LenModBase(len2)) # len2
  /\ ret = adler32_combine_(adler1, adler2, I64(LenModBase(len2))).ret

\* C6: incremental extension: adler32(adler32(1, A), B) equals adler32(1, A ++ B),
\* for the segments A and B of the session.
C6_IncrementalExtension == stage = "done" => extended = whole

\* C7: null-buffer convention: with a null buffer adler32 and adler32_z return 1
\* for every seed and every length, zero included, and read nothing.
C7_NullBuffer ==
  (fn \in ChecksumFns /\ IsNull(buf))
    => (ret = ONE /\ reads = 0)

\* C7 witness: a call with a null buffer, length 0 and a seed other than 1
\* returned 1 (the null check came before the zero-length check).
C7_Witness ==
  /\ fn = "adler32"
  /\ IsNull(buf) /\ len = 0
  /\ adler = SENTINEL
  /\ ret = ONE

\* C8: neutral extension: with a non-null buffer and length 0 adler32 and
\* adler32_z return the seed unchanged and read nothing.
C8_ZeroLength ==
  (fn \in ChecksumFns /\ ~IsNull(buf) /\ len = 0)
    => (ret = adler /\ reads = 0)

\* C8 witness: adler32_z(0, buf, 0) over a buffer that holds bytes returned 0.
C8_Witness ==
  /\ fn = "adler32_z"
  /\ ~IsNull(buf) /\ Len(buf.mem) > 0 /\ len = 0
  /\ adler = ZERO
  /\ ret = ZERO /\ reads = 0

\* C9: no arithmetic fault in combine: for len2 >= 0 and any 32-bit checksums no
\* checked operation leaves u32 (no addition above 2^32 - 1, no subtraction below
\* zero), rem is below BASE so that BASE - rem is at least 1, both factors of the
\* widened product are below 2^16, and the call returns.
C9_NoArithmeticFault ==
  (fn \in CombineFns /\ ~LenIsNegative(len2))
    => /\ trace.arith /\ trace.ok /\ ~panicked
       /\ trace.rem.hi = 0 /\ trace.rem.lo < BASE
       /\ trace.mask1.hi = 0

\* C9 witness: combine(0xFFFFFFFF, 0xFFFFFFFF, i64::MAX) ran the arithmetic
\* without a fault.
C9_Witness ==
  /\ fn = "adler32_combine"
  /\ adler1 = SENTINEL /\ adler2 = SENTINEL
  /\ len2 = I64_MAX
  /\ trace.arith /\ trace.ok /\ ~panicked

\* C10: the sentinel is unambiguous: for len2 >= 0 and any 32-bit checksums the
\* result is never 0xFFFFFFFF.
C10_SentinelOnlyForNegative ==
  (fn \in CombineFns /\ ~LenIsNegative(len2)) => ret # SENTINEL

\* C10 witness: a combine with len2 = 0 whose result has an all-ones low half
\* (sum1 = 65535 after both subtractions) and is still not the sentinel.
C10_Witness ==
  /\ fn = "adler32_combine"
  /\ len2 = I64(0)
  /\ ret.lo = W16 - 1
  /\ ret # SENTINEL

====
